---------------------------- MODULE Spec2Model ----------------------------
(***************************************************************************)
(* Tanim AI backend (src/main.py): the chat turn, the history read, the    *)
(* status endpoints and the reply generator.                               *)
(*                                                                         *)
(* A text is a sequence of one-character strings.  The fixed literals of   *)
(* the reply template are single tokens of such a sequence (their non-     *)
(* ASCII glyphs are written as [U+xxxx]); no input character equals one.   *)
(* A request is handled by a worker; FastAPI runs the synchronous handlers *)
(* on a thread pool, so the storage calls of different workers interleave. *)
(***************************************************************************)
EXTENDS Naturals, Sequences, FiniteSets

VARIABLES
    db,         \* the process-wide storage handle: "None" or "handle"
    store,      \* the "message" collection, in insertion order
    clock,      \* datetime.now(timezone.utc), as a counter
    pc,         \* per worker: position in its handler
    op,         \* per worker: the endpoint it serves
    req,        \* per worker: the request it received
    resp,       \* per worker: the response (or error) it ends with
    trace,      \* per worker: the storage calls its request has made
    turns,      \* chat requests received so far
    failed,     \* some create_document call has raised
    user_text,  \* the argument of a stand-alone generate_reply call
    reply_text  \* its result, NoReply before the call

vars == <<db, store, clock, pc, op, req, resp, trace, turns, failed,
          user_text, reply_text>>

chatVars == <<db, store, clock, pc, op, req, resp, trace, turns, failed>>

replyVars == <<user_text, reply_text>>

---------------------------------------------------------------------------
(* Bounds *)

NumWorkers == 2
MaxTurns == 2
MaxPrefill == 25
MaxPad == 2
MaxShort == 3
MaxOver == 3

---------------------------------------------------------------------------
(* Texts *)

Whitespace == {" ", "\t"}

Ellipsis == <<".", ".", ".">>

HintThreshold == 120

HintKeep == 117

RECURSIVE lstrip(_)
lstrip(s) == IF s # <<>> /\ Head(s) \in Whitespace THEN lstrip(Tail(s)) ELSE s

RECURSIVE rstrip(_)
rstrip(s) ==
    IF s # <<>> /\ s[Len(s)] \in Whitespace
    THEN rstrip(SubSeq(s, 1, Len(s) - 1))
    ELSE s

strip(s) == rstrip(lstrip(s))

Slice(s, n) == SubSeq(s, 1, IF Len(s) < n THEN Len(s) ELSE n)

FallbackReply == <<"I'm here. Ask me anything about code, ideas, or tech.">>

HeaderLine == "[U+26A1] Tanim AI [U+2022] Insight\n"

EchoOpen == "You said: \""

EchoClose == "\"\n\n"

Closing == "Here's a thoughtful response: I can help you plan, outline, and implement this. If you'd like, ask for a step-by-step plan or a quick prototype."

summary_hint_keeps_threshold(text) ==
    IF Len(strip(text)) > HintThreshold
    THEN Slice(strip(text), HintThreshold) \o Ellipsis
    ELSE strip(text)

summary_hint_cuts_at_threshold(text) ==
    IF Len(strip(text)) >= HintThreshold
    THEN Slice(strip(text), HintKeep) \o Ellipsis
    ELSE strip(text)

summary_hint(text) ==
    IF Len(strip(text)) > HintThreshold
    THEN Slice(strip(text), HintKeep) \o Ellipsis
    ELSE strip(text)

generate_reply(text) ==
    IF strip(text) = <<>>
    THEN FallbackReply
    ELSE <<HeaderLine, EchoOpen>> \o summary_hint(text) \o <<EchoClose, Closing>>

(* Reading a reply back: whether it has an echo line, and the text between *)
(* the quotes of that line.                                                *)
HasEchoLine(r) ==
    /\ Len(r) >= 4
    /\ r[1] = HeaderLine
    /\ r[2] = EchoOpen
    /\ r[Len(r) - 1] = EchoClose
    /\ r[Len(r)] = Closing

Embedded(r) == SubSeq(r, 3, Len(r) - 2)

---------------------------------------------------------------------------
(* The inputs of the stand-alone generate_reply calls: leading whitespace, *)
(* a body of a given length whose characters cycle (so that every prefix   *)
(* is told from every other), trailing whitespace.                         *)

Cycle == <<"a", "b", " ", "c", "d">>

Body(n, off) == [i \in 1..n |-> Cycle[((i + off) % Len(Cycle)) + 1]]

Pad(k, c) == [i \in 1..k |-> c]

BodyLens == (0..MaxShort) \cup ((HintKeep - 1)..(HintThreshold + MaxOver))

ReplyInputs ==
    { Pad(l, c) \o Body(n, off) \o Pad(t, c) :
        l \in 0..MaxPad, t \in 0..MaxPad, c \in Whitespace,
        n \in BodyLens, off \in {0, 1, 3} }

NoReply == <<"unset">>

InitReply ==
    /\ user_text \in ReplyInputs
    /\ reply_text = NoReply

GenerateReply ==
    /\ reply_text = NoReply
    /\ reply_text' = generate_reply(user_text)
    /\ UNCHANGED user_text

---------------------------------------------------------------------------
(* Requests, records and responses *)

Workers == 1..NumWorkers

SessionIds == {"s1", "s2"}

NoModel == "<None>"

Limit == 50

ChatRequest(sid, msg, model) ==
    [session_id |-> sid, message |-> msg, model |-> model]

NoRequest == ChatRequest("", <<>>, NoModel)

(* The chat requests the clients send: an empty message, a message in each *)
(* session, an all-whitespace message; with and without a model name.      *)
ChatRequests ==
    { ChatRequest("s1", <<>>, NoModel),
      ChatRequest("s1", <<"h", "i">>, NoModel),
      ChatRequest("s1", <<" ">>, "tanim-pro"),
      ChatRequest("s2", <<"h", "i">>, "tanim-pro") }

Valid_any(r) == Len(r.message) >= 0

(* Field(..., min_length=1) on message; session_id and model are free. *)
Valid(r) == Len(r.message) >= 1

(* req.model or "tanim-stub" *)
ModelOrStub(m) == IF m = NoModel \/ m = "" THEN "tanim-stub" ELSE m

Doc(r, role, content, now) ==
    [session_id |-> r.session_id, role |-> role, content |-> content,
     model |-> ModelOrStub(r.model), created_at |-> now, updated_at |-> now]

user_doc(r, now) == Doc(r, "user", r.message, now)

asst_doc_echo(r, now) == Doc(r, "assistant", r.message, now)

asst_doc(r, now) == Doc(r, "assistant", generate_reply(r.message), now)

ChatMessage(d) ==
    [role |-> d.role, content |-> d.content, created_at |-> d.created_at]

ToMessages(docs) == [i \in 1..Len(docs) |-> ChatMessage(docs[i])]

(* The storage collaborator (database.py). *)
create_document(coll, doc) == Append(coll, doc)

LastN(s, n) == SubSeq(s, IF Len(s) > n THEN Len(s) - n + 1 ELSE 1, Len(s))

get_documents(coll, sid, limit) ==
    LastN(SelectSeq(coll, LAMBDA d : d.session_id = sid), limit)

NoInfo ==
    [message |-> "", backend |-> "", database |-> "", database_url |-> "",
     database_name |-> "", connection_status |-> "", collections |-> <<>>]

Response(status, detail, sid, msgs, info) ==
    [status |-> status, detail |-> detail, session_id |-> sid,
     messages |-> msgs, info |-> info]

NoResponse == Response(0, "", "", <<>>, NoInfo)

ValidationError == Response(422, "string_too_short", "", <<>>, NoInfo)

NotConfigured == Response(500, "Database not configured", "", <<>>, NoInfo)

StorageError == Response(500, "Internal Server Error", "", <<>>, NoInfo)

ChatResponse(sid, docs) == Response(200, "", sid, ToMessages(docs), NoInfo)

NoTrace == [userIdx |-> 0, asstIdx |-> 0, writes |-> 0, reads |-> 0,
            readLen |-> 0, raised |-> "none"]

(* The store as earlier, completed chat turns of session s1 left it. *)
PrefillMessage == <<"h", "i">>

PrefillDoc(i) ==
    IF i % 2 = 1
    THEN user_doc(ChatRequest("s1", PrefillMessage, NoModel), i)
    ELSE asst_doc(ChatRequest("s1", PrefillMessage, NoModel), i)

PrefillStore(n) == [i \in 1..(2 * n) |-> PrefillDoc(i)]

InitChat ==
    /\ db \in {"None", "handle"}
    /\ \E n \in {0, MaxPrefill} :
         /\ store = PrefillStore(n)
         /\ clock = 2 * n + 1
    /\ pc = [w \in Workers |-> "idle"]
    /\ op = [w \in Workers |-> "none"]
    /\ req = [w \in Workers |-> NoRequest]
    /\ resp = [w \in Workers |-> NoResponse]
    /\ trace = [w \in Workers |-> NoTrace]
    /\ turns = 0
    /\ failed = FALSE

---------------------------------------------------------------------------
(* POST /api/chat *)

(* A finished handler's response is sent before any other step is looked  *)
(* at: sending it (Return) reads and writes that worker's variables only.  *)
Quiet == \A v \in Workers : pc[v] # "done"

At(w, label) == Quiet /\ pc[w] = label

(* The workers are interchangeable: a request goes to the first idle one. *)
Free(w) == At(w, "idle") /\ \A v \in Workers : v < w => pc[v] # "idle"

Finish(w, r) ==
    /\ pc' = [pc EXCEPT ![w] = "done"]
    /\ resp' = [resp EXCEPT ![w] = r]

(* docs = get_documents("message", {"session_id": ...}, limit=50) *)
chat_docs_unfiltered(r) == LastN(store, Limit)

chat_docs(r) == get_documents(store, r.session_id, Limit)

history_docs_over(sid) == get_documents(store, sid, Limit + 1)

history_docs(sid) == get_documents(store, sid, Limit)

(* A chat request arrives at a free worker. *)
Receive(w, r) ==
    /\ Free(w)
    /\ turns < MaxTurns
    /\ r \in ChatRequests
    /\ req' = [req EXCEPT ![w] = r]
    /\ op' = [op EXCEPT ![w] = "chat"]
    /\ turns' = turns + 1

(* The request fails validation: chat is not entered. *)
ChatRejected(w) ==
    \E r \in ChatRequests :
        /\ Receive(w, r)
        /\ ~Valid(r)
        /\ Finish(w, ValidationError)
        /\ UNCHANGED <<db, store, clock, trace, failed>>

ChatNotConfigured_unchecked(w) ==
    \E r \in ChatRequests :
        /\ Receive(w, r)
        /\ Valid(r)
        /\ db = "None"
        /\ store' = create_document(store, user_doc(r, clock))
        /\ clock' = clock + 1
        /\ trace' = [trace EXCEPT ![w].userIdx = Len(store) + 1,
                                  ![w].writes = @ + 1]
        /\ pc' = [pc EXCEPT ![w] = "write_asst"]
        /\ UNCHANGED <<db, resp, failed>>

(* if db is None: raise HTTPException(500, "Database not configured") *)
ChatNotConfigured(w) ==
    \E r \in ChatRequests :
        /\ Receive(w, r)
        /\ Valid(r)
        /\ db = "None"
        /\ Finish(w, NotConfigured)
        /\ UNCHANGED <<db, store, clock, trace, failed>>

ChatWriteUser_lost(w) ==
    \E r \in ChatRequests :
        /\ Receive(w, r)
        /\ Valid(r)
        /\ db # "None"
        /\ clock' = clock + 1
        /\ trace' = [trace EXCEPT ![w].userIdx = Len(store) + 1,
                                  ![w].writes = @ + 1]
        /\ pc' = [pc EXCEPT ![w] = "write_asst"]
        /\ UNCHANGED <<db, store, resp, failed>>

(* Up to its first storage call the handler works on its own data: the    *)
(* arrival of a valid request and create_document("message", user_doc)    *)
(* are one step.                                                           *)
ChatWriteUser(w) ==
    \E r \in ChatRequests :
        /\ Receive(w, r)
        /\ Valid(r)
        /\ db # "None"
        /\ store' = create_document(store, user_doc(r, clock))
        /\ clock' = clock + 1
        /\ trace' = [trace EXCEPT ![w].userIdx = Len(store) + 1,
                                  ![w].writes = @ + 1]
        /\ pc' = [pc EXCEPT ![w] = "write_asst"]
        /\ UNCHANGED <<db, resp, failed>>

ChatWriteUserFails(w) ==
    \E r \in ChatRequests :
        /\ Receive(w, r)
        /\ Valid(r)
        /\ db # "None"
        /\ Finish(w, StorageError)
        /\ trace' = [trace EXCEPT ![w].raised = "write_user"]
        /\ failed' = TRUE
        /\ UNCHANGED <<db, store, clock>>

ChatWriteAssistant_touches(w) ==
    /\ At(w, "write_asst")
    /\ store' = create_document(
                    [store EXCEPT ![trace[w].userIdx].updated_at = clock],
                    asst_doc(req[w], clock))
    /\ clock' = clock + 1
    /\ trace' = [trace EXCEPT ![w].asstIdx = Len(store) + 1,
                              ![w].writes = @ + 1]
    /\ pc' = [pc EXCEPT ![w] = "read"]
    /\ UNCHANGED <<db, op, req, resp, turns, failed>>

ChatWriteAssistant(w) ==
    /\ At(w, "write_asst")
    /\ store' = create_document(store, asst_doc(req[w], clock))
    /\ clock' = clock + 1
    /\ trace' = [trace EXCEPT ![w].asstIdx = Len(store) + 1,
                              ![w].writes = @ + 1]
    /\ pc' = [pc EXCEPT ![w] = "read"]
    /\ UNCHANGED <<db, op, req, resp, turns, failed>>

ChatWriteAssistantFails_rollback(w) ==
    /\ At(w, "write_asst")
    /\ Finish(w, StorageError)
    /\ store' = SubSeq(store, 1, trace[w].userIdx - 1)
                   \o SubSeq(store, trace[w].userIdx + 1, Len(store))
    /\ trace' = [trace EXCEPT ![w].raised = "write_asst"]
    /\ failed' = TRUE
    /\ UNCHANGED <<db, clock, op, req, turns>>

ChatWriteAssistantFails(w) ==
    /\ At(w, "write_asst")
    /\ Finish(w, StorageError)
    /\ trace' = [trace EXCEPT ![w].raised = "write_asst"]
    /\ failed' = TRUE
    /\ UNCHANGED <<db, store, clock, op, req, turns>>

ChatRead(w) ==
    /\ At(w, "read")
    /\ Finish(w, ChatResponse(req[w].session_id, chat_docs(req[w])))
    /\ trace' = [trace EXCEPT ![w].reads = @ + 1, ![w].readLen = Len(store)]
    /\ UNCHANGED <<db, store, clock, op, req, turns, failed>>

ChatReadFails(w) ==
    /\ At(w, "read")
    /\ Finish(w, StorageError)
    /\ trace' = [trace EXCEPT ![w].raised = "read"]
    /\ UNCHANGED <<db, store, clock, op, req, turns, failed>>

---------------------------------------------------------------------------
(* GET /api/history: one storage call at most, so one step. *)

Ask(w, sid) ==
    /\ Free(w)
    /\ sid \in SessionIds
    /\ req' = [req EXCEPT ![w] = ChatRequest(sid, <<>>, NoModel)]
    /\ op' = [op EXCEPT ![w] = "history"]

HistoryNotConfigured(w) ==
    \E sid \in SessionIds :
        /\ Ask(w, sid)
        /\ db = "None"
        /\ Finish(w, NotConfigured)
        /\ UNCHANGED <<db, store, clock, trace, turns, failed>>

history(w) ==
    \E sid \in SessionIds :
        /\ Ask(w, sid)
        /\ db # "None"
        /\ Finish(w, ChatResponse(sid, history_docs(sid)))
        /\ trace' = [trace EXCEPT ![w].reads = @ + 1,
                                  ![w].readLen = Len(store)]
        /\ UNCHANGED <<db, store, clock, turns, failed>>

HistoryFails(w) ==
    \E sid \in SessionIds :
        /\ Ask(w, sid)
        /\ db # "None"
        /\ Finish(w, StorageError)
        /\ trace' = [trace EXCEPT ![w].raised = "read"]
        /\ UNCHANGED <<db, store, clock, turns, failed>>

---------------------------------------------------------------------------
(* GET /, GET /api/hello, GET /test *)

StatusStep(w, name, r) ==
    /\ Free(w)
    /\ Finish(w, r)
    /\ op' = [op EXCEPT ![w] = name]
    /\ UNCHANGED <<db, store, clock, req, trace, turns, failed>>

read_root(w) ==
    StatusStep(w, "read_root",
        Response(200, "", "", <<>>,
                 [NoInfo EXCEPT !.message = "Tanim AI Backend is running"]))

hello(w) ==
    StatusStep(w, "hello",
        Response(200, "", "", <<>>,
                 [NoInfo EXCEPT !.message = "Hello from Tanim AI backend API!"]))

Collections(coll) == IF coll = <<>> THEN <<>> ELSE <<"message">>

(* listing: whether db.list_collection_names() returns; url, name: whether *)
(* DATABASE_URL and DATABASE_NAME are set in the environment.              *)
test_response(listing, url, name) ==
    [message |-> "",
     backend |-> "Running",
     database |->
        IF db = "None" THEN "Available but not initialized"
        ELSE IF listing THEN "Connected & Working"
        ELSE "Connected but Error",
     database_url |-> IF url THEN "Set" ELSE "Not Set",
     database_name |-> IF name THEN "Set" ELSE "Not Set",
     connection_status |-> IF db = "None" THEN "Not Connected" ELSE "Connected",
     collections |->
        IF db # "None" /\ listing THEN Slice(Collections(store), 10) ELSE <<>>]

test_database(w) ==
    \E listing \in BOOLEAN, url \in BOOLEAN, name \in BOOLEAN :
        StatusStep(w, "test_database",
            Response(200, "", "", <<>>, test_response(listing, url, name)))

(* The response has been sent; the worker takes the next request. *)
Return(w) ==
    /\ pc[w] = "done"
    /\ pc' = [pc EXCEPT ![w] = "idle"]
    /\ op' = [op EXCEPT ![w] = "none"]
    /\ req' = [req EXCEPT ![w] = NoRequest]
    /\ resp' = [resp EXCEPT ![w] = NoResponse]
    /\ trace' = [trace EXCEPT ![w] = NoTrace]
    /\ UNCHANGED <<db, store, clock, turns, failed>>

---------------------------------------------------------------------------
(* Specifications *)

Init ==
    /\ InitChat
    /\ user_text = <<>>
    /\ reply_text = NoReply

Next ==
    \/ \E w \in Workers : ChatRejected(w) /\ UNCHANGED replyVars
    \/ \E w \in Workers : ChatNotConfigured(w) /\ UNCHANGED replyVars
    \/ \E w \in Workers : ChatWriteUser(w) /\ UNCHANGED replyVars
    \/ \E w \in Workers : ChatWriteUserFails(w) /\ UNCHANGED replyVars
    \/ \E w \in Workers : ChatWriteAssistant(w) /\ UNCHANGED replyVars
    \/ \E w \in Workers : ChatWriteAssistantFails(w) /\ UNCHANGED replyVars
    \/ \E w \in Workers : ChatRead(w) /\ UNCHANGED replyVars
    \/ \E w \in Workers : ChatReadFails(w) /\ UNCHANGED replyVars
    \/ \E w \in Workers : HistoryNotConfigured(w) /\ UNCHANGED replyVars
    \/ \E w \in Workers : history(w) /\ UNCHANGED replyVars
    \/ \E w \in Workers : HistoryFails(w) /\ UNCHANGED replyVars
    \/ \E w \in Workers : read_root(w) /\ UNCHANGED replyVars
    \/ \E w \in Workers : hello(w) /\ UNCHANGED replyVars
    \/ \E w \in Workers : test_database(w) /\ UNCHANGED replyVars
    \/ \E w \in Workers : Return(w) /\ UNCHANGED replyVars

Spec == Init /\ [][Next]_vars

InitIdle ==
    /\ db = "handle"
    /\ store = <<>>
    /\ clock = 1
    /\ pc = [w \in Workers |-> "idle"]
    /\ op = [w \in Workers |-> "none"]
    /\ req = [w \in Workers |-> NoRequest]
    /\ resp = [w \in Workers |-> NoResponse]
    /\ trace = [w \in Workers |-> NoTrace]
    /\ turns = 0
    /\ failed = FALSE

InitReplySpec == InitIdle /\ InitReply

NextReply == GenerateReply /\ UNCHANGED chatVars

SpecReply == InitReplySpec /\ [][NextReply]_vars

---------------------------------------------------------------------------
(* Properties of generate_reply, under SpecReply *)

(* A text without its leading and trailing whitespace, stated by position. *)
Inked(s) == {i \in 1..Len(s) : s[i] \notin Whitespace}

Least(S) == CHOOSE i \in S : \A j \in S : i <= j

Greatest(S) == CHOOSE i \in S : \A j \in S : j <= i

Trimmed(s) ==
    IF Inked(s) = {} THEN <<>> ELSE SubSeq(s, Least(Inked(s)), Greatest(Inked(s)))

Replied == reply_text # NoReply

(* C6, as claimed: for every user_text longer than 120 characters the echo *)
(* line of generate_reply(user_text) quotes the first 117 characters of    *)
(* user_text followed by "...".                                            *)
C6_TruncatesUserText ==
    (Replied /\ Len(user_text) > HintThreshold) =>
        /\ HasEchoLine(reply_text)
        /\ Embedded(reply_text) = SubSeq(user_text, 1, HintKeep) \o Ellipsis

(* C6, amended: for every user_text whose text without leading and         *)
(* trailing whitespace is longer than 120 characters, the echo line quotes *)
(* the first 117 characters of that stripped text followed by "...", and   *)
(* so never the full text.                                                 *)
C6_TruncatesStrippedText ==
    (Replied /\ Len(Trimmed(user_text)) > HintThreshold) =>
        /\ HasEchoLine(reply_text)
        /\ Embedded(reply_text) =
              SubSeq(Trimmed(user_text), 1, HintKeep) \o Ellipsis
        /\ Len(Embedded(reply_text)) = HintKeep + 3
        /\ Embedded(reply_text) # Trimmed(user_text)
        /\ Embedded(reply_text) # user_text

C6_Witness ==
    /\ Replied
    /\ Len(Trimmed(user_text)) > HintThreshold
    /\ Trimmed(user_text) # user_text
    /\ HasEchoLine(reply_text)

(* C7, as claimed: for every non-empty user_text of at most 120 characters *)
(* the echo line quotes user_text itself, character for character.         *)
C7_EmbedsUserText ==
    (Replied /\ user_text # <<>> /\ Len(user_text) <= HintThreshold) =>
        /\ HasEchoLine(reply_text)
        /\ Embedded(reply_text) = user_text

(* C7, amended: for every user_text that has a character other than        *)
(* whitespace and whose text without leading and trailing whitespace is at *)
(* most 120 characters long, the echo line quotes that stripped text,      *)
(* character for character; it is user_text itself when user_text neither  *)
(* starts nor ends with whitespace.                                        *)
C7_EmbedsStrippedText ==
    (Replied /\ Trimmed(user_text) # <<>>
             /\ Len(Trimmed(user_text)) <= HintThreshold) =>
        /\ HasEchoLine(reply_text)
        /\ Embedded(reply_text) = Trimmed(user_text)

C7_Witness ==
    /\ Replied
    /\ Len(user_text) = HintThreshold
    /\ Trimmed(user_text) = user_text
    /\ Embedded(reply_text) = user_text

---------------------------------------------------------------------------
(* Properties of the chat turn and the history read, under Spec *)

Configured == db # "None"

IsPrefix(s, t) == Len(s) <= Len(t) /\ SubSeq(t, 1, Len(s)) = s

Records(sid, role) ==
    {i \in 1..Len(store) : store[i].session_id = sid /\ store[i].role = role}

Landed(i) == i >= 1 /\ i <= Len(store)

IsUserRecord(w, i) ==
    /\ Landed(i)
    /\ store[i].session_id = req[w].session_id
    /\ store[i].role = "user"
    /\ store[i].content = req[w].message

IsAssistantRecord(w, i) ==
    /\ Landed(i)
    /\ store[i].session_id = req[w].session_id
    /\ store[i].role = "assistant"
    /\ store[i].content = generate_reply(req[w].message)

WrotePair(w) ==
    /\ trace[w].writes = 2
    /\ IsUserRecord(w, trace[w].userIdx)
    /\ IsAssistantRecord(w, trace[w].asstIdx)
    /\ trace[w].userIdx < trace[w].asstIdx

ValidTurn(w) == op[w] = "chat" /\ Valid(req[w]) /\ Configured

ReturnedOwnPair(w) ==
    LET m == resp[w].messages IN
    /\ Len(m) >= 2
    /\ m[Len(m) - 1] = ChatMessage(store[trace[w].userIdx])
    /\ m[Len(m)] = ChatMessage(store[trace[w].asstIdx])

Answered(w) == op[w] = "chat" /\ pc[w] = "done" /\ resp[w].status = 200

(* No other request wrote a record of this session between this turn's    *)
(* user write and its history read.                                        *)
Undisturbed(w) ==
    \A i \in (trace[w].userIdx + 1)..trace[w].readLen :
        i # trace[w].asstIdx => store[i].session_id # req[w].session_id

(* C2, as claimed: the list a chat turn returns has the turn's own user    *)
(* and assistant records as its two most recent entries.                   *)
C2_ReturnsOwnPairLast ==
    \A w \in Workers : Answered(w) => ReturnedOwnPair(w)

(* C2, amended: for any number of earlier chat turns on the same session,  *)
(* if no other request writes a record of that session between this        *)
(* turn's user write and its history read, the list the turn returns has   *)
(* the turn's own user and assistant records as its two last entries.      *)
C2_UndisturbedReturnsOwnPairLast ==
    \A w \in Workers : (Answered(w) /\ Undisturbed(w)) => ReturnedOwnPair(w)

C2_Witness ==
    \E w \in Workers :
        /\ Answered(w)
        /\ Undisturbed(w)
        /\ ReturnedOwnPair(w)
        /\ Len(resp[w].messages) = Limit
        /\ trace[w].readLen > trace[w].asstIdx

(* C3: the list returned by history and by chat never has more than 50     *)
(* entries, and each entry is (the role, content and created_at of) a      *)
(* stored record of the requested session.                                 *)
C3_WindowOfSession ==
    \A w \in Workers :
        (pc[w] = "done" /\ op[w] \in {"chat", "history"}) =>
            /\ Len(resp[w].messages) <= Limit
            /\ \A i \in 1..Len(resp[w].messages) :
                 \E j \in 1..Len(store) :
                    /\ store[j].session_id = req[w].session_id
                    /\ ChatMessage(store[j]) = resp[w].messages[i]

C3_Witness ==
    \E w \in Workers :
        /\ pc[w] = "done"
        /\ op[w] = "history"
        /\ Len(resp[w].messages) = Limit
        /\ Cardinality(Records(req[w].session_id, "user")
                       \cup Records(req[w].session_id, "assistant")) > Limit
        /\ \E i \in 1..Len(store) : store[i].session_id # req[w].session_id

NoStorageCall(w) ==
    /\ trace[w].writes = 0
    /\ trace[w].reads = 0
    /\ trace[w].raised = "none"

(* C4, as claimed: with db None, every chat and every history call ends    *)
(* with 500 "Database not configured" and makes no storage call.           *)
C4_AbsentAlways500 ==
    \A w \in Workers :
        (db = "None" /\ pc[w] = "done" /\ op[w] \in {"chat", "history"}) =>
            /\ resp[w].status = 500
            /\ resp[w].detail = "Database not configured"
            /\ NoStorageCall(w)

AbsentEnds500 ==
    \A w \in Workers :
        (db = "None" /\ op[w] \in {"chat", "history"}
            /\ (op[w] = "chat" => Valid(req[w]))) =>
            /\ pc[w] = "done"
            /\ resp[w].status = 500
            /\ resp[w].detail = "Database not configured"
            /\ NoStorageCall(w)

(* C4, amended: with db None, every history call and every chat call that  *)
(* passes validation ends with 500 "Database not configured"; neither      *)
(* makes a storage call, and no step changes the store.                    *)
C4_AbsentValid500 ==
    /\ []AbsentEnds500
    /\ [][db = "None" => (store' = store /\ clock' = clock)]_vars

C4_Witness ==
    \E w \in Workers :
        /\ db = "None"
        /\ store # <<>>
        /\ op[w] = "chat"
        /\ Valid(req[w])
        /\ pc[w] = "done"
        /\ resp[w] = NotConfigured

(* C5: a chat request with an empty message ends with a validation error   *)
(* and has made no storage call, whether or not storage is available.      *)
C5_EmptyMessageRejected ==
    \A w \in Workers :
        (op[w] = "chat" /\ req[w].message = <<>>) =>
            /\ pc[w] = "done"
            /\ resp[w].status = 422
            /\ NoStorageCall(w)
            /\ trace[w].userIdx = 0
            /\ trace[w].asstIdx = 0

C5_Witness ==
    \E w \in Workers :
        /\ Configured
        /\ op[w] = "chat"
        /\ req[w].message = <<>>
        /\ resp[w].status = 422

AssistantWriteRaised(w) == trace[w].raised = "write_asst"

AfterAssistantWriteRaised ==
    \A w \in Workers :
        AssistantWriteRaised(w) =>
            /\ IsUserRecord(w, trace[w].userIdx)
            /\ trace[w].writes = 1
            /\ trace[w].asstIdx = 0
            /\ trace[w].reads = 0
            /\ resp[w].messages = <<>>
            /\ pc[w] = "done"
            /\ resp[w].status = 500

(* C8: when the assistant write of a turn raises after its user write      *)
(* succeeded, the user record is still in the store, the failing step      *)
(* leaves the store as it was (nothing rolled back, no assistant record    *)
(* added), the turn makes no history read, and it ends with the error.     *)
C8_NoRollback ==
    /\ []AfterAssistantWriteRaised
    /\ [][ \A w \in Workers :
              (~AssistantWriteRaised(w) /\ AssistantWriteRaised(w)') =>
                  store' = store ]_vars

C8_Witness ==
    \E w \in Workers :
        /\ trace[w].raised = "write_asst"
        /\ IsUserRecord(w, trace[w].userIdx)
        /\ trace[w].userIdx > 2 * MaxPrefill

Stepped(w) == pc'[w] # pc[w]

ReadOnlyOps == {"history", "read_root", "hello", "test_database"}

(* C9: every step keeps every stored record, with all its fields, where it *)
(* is; a step of history, test_database, read_root or hello adds none.     *)
C9_AppendOnly ==
    [][ /\ IsPrefix(store, store')
        /\ \A w \in Workers :
              (Stepped(w) /\ op'[w] \in ReadOnlyOps) => store' = store ]_vars

C9_Witness ==
    \E w \in Workers :
        /\ op[w] = "history"
        /\ pc[w] = "done"
        /\ resp[w].status = 200
        /\ Len(store) > 2 * MaxPrefill
        /\ store # <<>>

InFlight(w) == pc[w] \in {"write_asst", "read"}

(* C10: under every interleaving, for every session the assistant records  *)
(* are at most as many as the user records, every assistant record's       *)
(* content is generate_reply of the content of an earlier user record of   *)
(* its session, and when no turn is in flight and no create_document call  *)
(* has raised, the two counts are equal.                                   *)
C10_PairedUnderInterleaving ==
    /\ \A sid \in SessionIds :
          /\ Cardinality(Records(sid, "assistant"))
                <= Cardinality(Records(sid, "user"))
          /\ ((\A w \in Workers : ~InFlight(w)) /\ ~failed) =>
                Cardinality(Records(sid, "assistant"))
                   = Cardinality(Records(sid, "user"))
    /\ \A i \in 1..Len(store) :
          store[i].role = "assistant" =>
              \E j \in 1..(i - 1) :
                  /\ store[j].role = "user"
                  /\ store[j].session_id = store[i].session_id
                  /\ store[i].content = generate_reply(store[j].content)

C10_Witness ==
    \E v, w \in Workers :
        /\ v # w
        /\ req[v].session_id = req[w].session_id
        /\ req[v].message # req[w].message
        /\ pc[v] = "read"
        /\ pc[w] = "read"
        /\ trace[v].userIdx < trace[w].userIdx
        /\ trace[w].userIdx < trace[v].asstIdx
        /\ trace[v].asstIdx < trace[w].asstIdx

=============================================================================
